---------------------------- MODULE Spec2Model ----------------------------
(***************************************************************************)
(* Model of the SkillGap AI Coach backend (backend/services/baseline.py,   *)
(* llm_service.py, analyzer.py and the /analyze handler of main.py).       *)
(*                                                                         *)
(* Texts are TLA+ strings; a character is a string of length one.  The     *)
(* pure functions of baseline.py are operators computed as the code        *)
(* computes them.  Each family of functions has a specification of its     *)
(* own whose Init draws the arguments (fin) from bounded sets and whose    *)
(* action applies the function and stores what it returns (fout).          *)
(***************************************************************************)
EXTENDS Integers, Sequences, FiniteSets, TLC

VARIABLES
    fin,      \* the arguments of the function under check
    fout,     \* what the function returned
    phase,    \* "ready": arguments drawn; "done": function applied
    env,      \* settings.use_llm_mode and the OPENAI_API_KEY of the environment
    db,       \* the rows of analysis_runs, oldest first
    next_id,  \* the next value of the autoincrement primary key
    req       \* the POST /analyze requests being served, by connection

fvars == <<fin, fout, phase>>
svars == <<env, db, next_id, req>>
vars == <<fin, fout, phase, env, db, next_id, req>>

\* the connections on which requests arrive
Slots == {"c1", "c2"}

IdleRequest ==
    [pc |-> "idle", resume_text |-> "", job_description |-> "",
     result |-> <<>>, last_run |-> <<>>, status |-> 0]

\* the service at start-up, where the specifications of the pure functions leave it
ServiceIdle ==
    /\ env = [use_llm_mode |-> FALSE, OPENAI_API_KEY |-> ""]
    /\ db = <<>>
    /\ next_id = 1
    /\ req = [c \in Slots |-> IdleRequest]

-----------------------------------------------------------------------------
(* Python str primitives *)

Ch(s, i) == SubSeq(s, i, i)

\* the one element of a set of one element; {e(x) : x \in {v}} binds x to the
\* value of v, which is then computed once, where LET binds an expression
The(S) == CHOOSE x \in S : TRUE

UPPER == "ABCDEFGHIJKLMNOPQRSTUVWXYZ"
LOWER == "abcdefghijklmnopqrstuvwxyz"
DIGITS == "0123456789"

CharsOf(s) == {Ch(s, i) : i \in 1..Len(s)}

UpperChars == CharsOf(UPPER)
LowerChars == CharsOf(LOWER)

LowerMap == [c \in UpperChars |-> Ch(LOWER, CHOOSE i \in 1..Len(UPPER) : Ch(UPPER, i) = c)]
UpperMap == [c \in LowerChars |-> Ch(UPPER, CHOOSE i \in 1..Len(LOWER) : Ch(LOWER, i) = c)]

LowerChar(c) == IF c \in UpperChars THEN LowerMap[c] ELSE c
UpperChar(c) == IF c \in LowerChars THEN UpperMap[c] ELSE c

\* str.lower(), character by character (by halves, which keeps the depth of
\* the evaluation logarithmic in the length)
RECURSIVE lower(_)
lower(s) ==
    IF Len(s) = 0 THEN ""
    ELSE IF Len(s) = 1 THEN LowerChar(s)
    ELSE lower(SubSeq(s, 1, Len(s) \div 2))
            \o lower(SubSeq(s, Len(s) \div 2 + 1, Len(s)))

\* str.upper(), used to draw inputs that differ in letter case only
RECURSIVE upper(_)
upper(s) ==
    IF Len(s) = 0 THEN ""
    ELSE IF Len(s) = 1 THEN UpperChar(s)
    ELSE upper(SubSeq(s, 1, Len(s) \div 2))
            \o upper(SubSeq(s, Len(s) \div 2 + 1, Len(s)))

\* \s of re and the whitespace of str.strip() / str.split()
WhiteSpace == {" ", "\n", "\t", "\r"}
IsSpace(c) == c \in WhiteSpace

\* \w of re
WordChars == LowerChars \cup UpperChars \cup CharsOf(DIGITS) \cup {"_"}
IsWord(c) == c \in WordChars

\* set(s.lower() for s in skills)
LowerSet(skills) == {lower(skills[i]) : i \in DOMAIN skills}

Min(a, b) == IF a <= b THEN a ELSE b
Max(a, b) == IF a >= b THEN a ELSE b

\* the least and the greatest member of a set of integers, 0 for the empty set
SetMin(S) == IF S = {} THEN 0 ELSE CHOOSE x \in S : \A y \in S : x <= y
SetMax(S) == IF S = {} THEN 0 ELSE CHOOSE x \in S : \A y \in S : x >= y

-----------------------------------------------------------------------------
(* compute_match_score *)

\* rounding with a tie going up, as round() of Python 2 or floor(x + 0.5)
round_half_up(num, den) == (2 * num + den) \div (2 * den)

\* Python's round(num / den) for num >= 0, den > 0: to the nearest integer,
\* a tie going to the even one.  (The float quotient of two integers below
\* 2^53 is a tie exactly when the rational quotient is.)
round(num, den) ==
    LET q == num \div den
        r == num % den
    IN  IF 2 * r < den THEN q
        ELSE IF 2 * r > den THEN q + 1
        ELSE IF q % 2 = 0 THEN q ELSE q + 1

\* a slip in the guard for an empty job list: 0 instead of 100
compute_match_score_zero_on_empty(resume_skills, job_skills) ==
    IF job_skills = <<>> THEN 0
    ELSE LET resume_set == LowerSet(resume_skills)
             job_set == LowerSet(job_skills)
             overlap == Cardinality(job_set \cap resume_set)
         IN  Min(100, round(100 * overlap, Cardinality(job_set)))

compute_match_score(resume_skills, job_skills) ==
    IF job_skills = <<>> THEN 100
    ELSE LET resume_set == LowerSet(resume_skills)
             job_set == LowerSet(job_skills)
             overlap == Cardinality(job_set \cap resume_set)
         IN  Min(100, round(100 * overlap, Cardinality(job_set)))

-----------------------------------------------------------------------------
(* Inputs of the scorer: skill lists drawn as presentations of skill sets *)

MaxSkills == 8

SkillPool == <<"api", "aws", "css", "git", "go", "ml", "php", "r", "sql", "vue">>

Universe == {SkillPool[i] : i \in 1..MaxSkills}

\* the members of S in pool order
ListOf(S) ==
    LET idx == {i \in 1..Len(SkillPool) : SkillPool[i] \in S}
        nth(k) == CHOOSE i \in idx : Cardinality({j \in idx : j <= i}) = k
    IN  [k \in 1..Cardinality(idx) |-> SkillPool[nth(k)]]

Reverse(l) == [k \in 1..Len(l) |-> l[Len(l) + 1 - k]]

Presentations == {"sorted", "reversed", "upper", "dup"}

Present(S, how) ==
    LET l == ListOf(S)
    IN  CASE how = "sorted" -> l
          [] how = "reversed" -> Reverse(l)
          [] how = "upper" -> [k \in 1..Len(l) |-> upper(l[k])]
          [] how = "dup" -> l \o [k \in 1..Len(l) |-> upper(Reverse(l)[k])]

PrefixSets == {{SkillPool[i] : i \in 1..n} : n \in 0..MaxSkills}

ScoreInit ==
    /\ \E J \in SUBSET Universe, R \in PrefixSets :
       \E jhow \in Presentations, rhow \in Presentations :
          fin = [J |-> J, R |-> R,
                 job_skills |-> Present(J, jhow),
                 resume_skills |-> Present(R, rhow)]
    /\ fout = <<>>
    /\ phase = "ready"
    /\ ServiceIdle

Score ==
    /\ phase = "ready"
    /\ fout' = compute_match_score(fin.resume_skills, fin.job_skills)
    /\ phase' = "done"
    /\ UNCHANGED <<fin, svars>>

ScoreNext == Score

SpecScore == ScoreInit /\ [][ScoreNext]_vars

\* C2: the score is an integer in [0,100]; it is 100 whenever the job list is
\* empty and 0 whenever the resume list is empty and the job list is not.
C2_ScoreRange ==
    phase = "done" =>
        /\ fout \in 0..100
        /\ (fin.job_skills = <<>> => fout = 100)
        /\ (fin.resume_skills = <<>> /\ fin.job_skills # <<>> => fout = 0)

C2_Witness ==
    /\ phase = "done"
    /\ fin.job_skills = <<>>
    /\ fin.resume_skills # <<>>
    /\ fout = 100

\* the overlap count and the job count of the drawn sets
Matched == Cardinality(fin.J \cap fin.R)
Wanted == Cardinality(fin.J)

\* C3 as stated: for a non-empty job list the score is 100 * |J n R| / |J|
\* rounded to the nearest integer, halfway cases going up (1 of 8 gives 13),
\* whatever the order, letter case and duplication of the two lists.
C3_NearestHalfUp ==
    (phase = "done" /\ fin.job_skills # <<>>) =>
        /\ LowerSet(fin.job_skills) = fin.J
        /\ LowerSet(fin.resume_skills) = fin.R
        /\ fout = (200 * Matched + Wanted) \div (2 * Wanted)

\* C3 as amended: the score s is a nearest integer of 100 * |J n R| / |J|
\* (|100k/n - s| <= 1/2), and where the quotient is exactly halfway between
\* two integers s is the even one; it depends on the sets J and R only.
C3_NearestHalfEven ==
    (phase = "done" /\ fin.job_skills # <<>>) =>
        /\ LowerSet(fin.job_skills) = fin.J
        /\ LowerSet(fin.resume_skills) = fin.R
        /\ Wanted * (2 * fout - 1) <= 200 * Matched
        /\ 200 * Matched <= Wanted * (2 * fout + 1)
        /\ (200 * Matched \in {Wanted * (2 * fout - 1), Wanted * (2 * fout + 1)}
              => fout % 2 = 0)

\* one matched skill out of eight, the job list given with duplicates in
\* another letter case: 12.5 is scored 12
C3_Witness ==
    /\ phase = "done"
    /\ Wanted = 8
    /\ Matched = 1
    /\ Len(fin.job_skills) > 8
    /\ fout = 12

-----------------------------------------------------------------------------
(* suggest_next_steps_baseline *)

\* sep.join(l)
RECURSIVE join(_, _)
join(sep, l) ==
    IF l = <<>> THEN ""
    ELSE IF Len(l) = 1 THEN l[1]
    ELSE l[1] \o sep \o join(sep, Tail(l))

\* l[:n]
Take(l, n) == SubSeq(l, 1, Min(n, Len(l)))

CLOSING_OUTCOMES == "Add concrete outcomes (metrics, impact) for your top 3 matching skills."
CLOSING_TAILOR == "Tailor your resume header and summary to mirror keywords from the job description."
ALREADY_COVERS == "Your resume already covers the main skills mentioned in the job."

\* the count line emitted from five missing skills on, not from six
suggest_next_steps_count_from_five(missing_skills, overlapping_skill_names) ==
    LET s1 == IF missing_skills # <<>>
              THEN <<"Focus on building or highlighting these skills: "
                        \o join(", ", Take(missing_skills, 5)) \o ".">>
                   \o (IF Len(missing_skills) >= 5
                       THEN <<"Plus " \o ToString(Len(missing_skills) - 5)
                                \o " more job-relevant skills to consider.">>
                       ELSE <<>>)
              ELSE <<ALREADY_COVERS>>
        s2 == IF overlapping_skill_names # <<>>
              THEN <<"Emphasize your experience with: "
                        \o join(", ", Take(overlapping_skill_names, 5))
                        \o " in your summary or top bullet points.">>
              ELSE <<>>
    IN  s1 \o s2 \o <<CLOSING_OUTCOMES, CLOSING_TAILOR>>

suggest_next_steps_baseline(missing_skills, overlapping_skill_names) ==
    LET s1 == IF missing_skills # <<>>
              THEN <<"Focus on building or highlighting these skills: "
                        \o join(", ", Take(missing_skills, 5)) \o ".">>
                   \o (IF Len(missing_skills) > 5
                       THEN <<"Plus " \o ToString(Len(missing_skills) - 5)
                                \o " more job-relevant skills to consider.">>
                       ELSE <<>>)
              ELSE <<ALREADY_COVERS>>
        s2 == IF overlapping_skill_names # <<>>
              THEN <<"Emphasize your experience with: "
                        \o join(", ", Take(overlapping_skill_names, 5))
                        \o " in your summary or top bullet points.">>
              ELSE <<>>
    IN  s1 \o s2 \o <<CLOSING_OUTCOMES, CLOSING_TAILOR>>

(* Inputs of the suggestion generator: runs of consecutive pool skills *)

MaxListLen == 7

PoolSlices ==
    {<<>>} \cup UNION {{SubSeq(SkillPool, a, a + n - 1) :
                           a \in 1..(Len(SkillPool) - n + 1)} : n \in 1..MaxListLen}

StepsInit ==
    /\ \E m \in PoolSlices, o \in PoolSlices :
          fin = [missing_skills |-> m, overlapping_skill_names |-> o]
    /\ fout = <<>>
    /\ phase = "ready"
    /\ ServiceIdle

Suggest ==
    /\ phase = "ready"
    /\ fout' = suggest_next_steps_baseline(fin.missing_skills,
                                           fin.overlapping_skill_names)
    /\ phase' = "done"
    /\ UNCHANGED <<fin, svars>>

StepsNext == Suggest

SpecSteps == StepsInit /\ [][StepsNext]_vars

\* the first min(5, |l|) entries of l, separated by ", "
Named(l) ==
    CASE Len(l) = 1 -> l[1]
      [] Len(l) = 2 -> l[1] \o ", " \o l[2]
      [] Len(l) = 3 -> l[1] \o ", " \o l[2] \o ", " \o l[3]
      [] Len(l) = 4 -> l[1] \o ", " \o l[2] \o ", " \o l[3] \o ", " \o l[4]
      [] Len(l) >= 5 -> l[1] \o ", " \o l[2] \o ", " \o l[3] \o ", " \o l[4]
                             \o ", " \o l[5]

\* C8: the steps are, in order: the missing-focus line naming the first
\* min(5, |missing|) skills and, exactly when |missing| > 5, the count line
\* stating |missing| - 5 (or the congratulatory line when nothing is missing);
\* the overlap line naming the first min(5, |overlapping|) skills exactly when
\* overlapping is non-empty; the two fixed closing lines.  Between 3 and 5
\* entries in all.
C8_StepsLayout ==
    phase = "done" =>
        LET m == fin.missing_skills
            o == fin.overlapping_skill_names
            n == Len(fout)
            nHead == IF m # <<>> /\ Len(m) > 5 THEN 2 ELSE 1
            nMid == IF o # <<>> THEN 1 ELSE 0
        IN  /\ n = nHead + nMid + 2
            /\ n \in 3..5
            /\ fout[1] = IF m # <<>>
                         THEN "Focus on building or highlighting these skills: "
                                 \o Named(m) \o "."
                         ELSE "Your resume already covers the main skills mentioned in the job."
            /\ Len(m) > 5 =>
                 fout[2] = "Plus " \o ToString(Len(m) - 5)
                              \o " more job-relevant skills to consider."
            /\ o # <<>> =>
                 fout[nHead + 1] = "Emphasize your experience with: " \o Named(o)
                                      \o " in your summary or top bullet points."
            /\ fout[n - 1] = "Add concrete outcomes (metrics, impact) for your top 3 matching skills."
            /\ fout[n] = "Tailor your resume header and summary to mirror keywords from the job description."

C8_Witness ==
    /\ phase = "done"
    /\ Len(fin.missing_skills) = 7
    /\ Len(fin.overlapping_skill_names) = 6
    /\ Len(fout) = 5
    /\ fout[2] = "Plus 2 more job-relevant skills to consider."

-----------------------------------------------------------------------------
(* skill_dict.py *)

SKILL_KEYWORDS == {
    "python", "javascript", "typescript", "java", "csharp", "c#", "cpp", "c++", "go", "golang",
    "rust", "ruby", "php", "swift", "kotlin", "scala", "r", "sql", "html", "css",
    "react", "vue", "angular", "nextjs", "next.js", "node", "nodejs", "express", "django",
    "flask", "fastapi", "spring", "rails", "laravel", "dotnet", ".net", "asp.net",
    "machine learning", "ml", "deep learning", "tensorflow", "pytorch", "keras", "pandas",
    "numpy", "scikit", "scikit-learn", "data analysis", "data science", "nlp",
    "natural language processing", "computer vision", "statistics",
    "aws", "azure", "gcp", "google cloud", "docker", "kubernetes", "k8s", "ci/cd",
    "jenkins", "github actions", "terraform", "ansible", "linux", "bash", "shell",
    "postgresql", "postgres", "mysql", "mongodb", "redis", "elasticsearch", "sqlite",
    "git", "rest", "api", "graphql", "microservices", "agile", "scrum", "jira",
    "testing", "unit tests", "tdd", "oop", "design patterns", "clean code",
    "leadership", "communication", "project management", "technical writing",
    "problem solving", "collaboration", "mentoring", "cross-functional"}

SKILL_WORDS == {
    "python", "javascript", "typescript", "java", "golang", "rust", "ruby", "php",
    "swift", "kotlin", "scala", "react", "vue", "angular", "django", "flask", "fastapi",
    "node", "express", "spring", "rails", "docker", "kubernetes", "terraform", "aws",
    "azure", "gcp", "postgresql", "mysql", "mongodb", "redis", "git", "linux", "bash",
    "tensorflow", "pytorch", "pandas", "numpy", "sql", "html", "css", "rest", "api",
    "agile", "scrum", "jira", "testing", "oop", "nlp", "ml"}

-----------------------------------------------------------------------------
(* More str primitives *)

\* the printable ASCII characters in code point order: 32 (space) to 95,
\* and 97 to 126 (96, the grave accent, cannot be written in a TLA+ string)
ASCII_32_95 == " !\"#$%&'()*+,-./0123456789:;<=>?@ABCDEFGHIJKLMNOPQRSTUVWXYZ[\\]^_"
ASCII_97_126 == "abcdefghijklmnopqrstuvwxyz{|}~"

\* ord(c)
OrdMap ==
    [c \in CharsOf(ASCII_32_95) \cup CharsOf(ASCII_97_126) |->
        IF c \in CharsOf(ASCII_32_95)
        THEN 31 + (CHOOSE i \in 1..Len(ASCII_32_95) : Ch(ASCII_32_95, i) = c)
        ELSE 96 + (CHOOSE i \in 1..Len(ASCII_97_126) : Ch(ASCII_97_126, i) = c)]
Ord(c) == CASE c = "\t" -> 9
            [] c = "\n" -> 10
            [] c = "\r" -> 13
            [] OTHER -> OrdMap[c]

\* a < b on str: by the first differing character, a proper prefix first
StrLess(a, b) ==
    \E i \in 1..(Len(b)) :
        /\ i <= Len(a) + 1
        /\ SubSeq(a, 1, i - 1) = SubSeq(b, 1, i - 1)
        /\ (i = Len(a) + 1 \/ Ord(Ch(a, i)) < Ord(Ch(b, i)))

\* sorted(S) for a set of str
sorted(S) ==
    [k \in 1..Cardinality(S) |->
        CHOOSE x \in S : Cardinality({y \in S : StrLess(y, x)}) = k - 1]

\* sub in s
Contains(sub, s) ==
    \E i \in 1..(Len(s) - Len(sub) + 1) : SubSeq(s, i, i + Len(sub) - 1) = sub

\* s.lstrip(), s.rstrip(), s.strip()
RECURSIVE lstrip(_)
lstrip(s) == IF s # "" /\ IsSpace(Head(s)) THEN lstrip(Tail(s)) ELSE s

RECURSIVE rstrip(_)
rstrip(s) ==
    IF s # "" /\ IsSpace(Ch(s, Len(s))) THEN rstrip(SubSeq(s, 1, Len(s) - 1)) ELSE s

strip(s) == rstrip(lstrip(s))

\* the length of the longest prefix of s free of whitespace
RECURSIVE WordLen(_)
WordLen(s) == IF s = "" \/ IsSpace(Head(s)) THEN 0 ELSE 1 + WordLen(Tail(s))

\* s.split(): the maximal runs of non-whitespace characters
RECURSIVE split(_)
split(s) ==
    LET t == lstrip(s)
        n == WordLen(t)
    IN  IF t = "" THEN <<>>
        ELSE <<SubSeq(t, 1, n)>> \o split(SubSeq(t, n + 1, Len(t)))

-----------------------------------------------------------------------------
(* normalize_text, tokenize, extract_skills_from_text *)

\* re.sub(r"[^\w\s]", " ", s)
RECURSIVE sub_punctuation(_)
sub_punctuation(s) ==
    IF s = "" THEN ""
    ELSE (IF IsWord(Head(s)) \/ IsSpace(Head(s)) THEN Head(s) ELSE " ")
            \o sub_punctuation(Tail(s))

\* the punctuation left in place
normalize_text_keeps_punctuation(text) ==
    IF text = "" \/ strip(text) = "" THEN ""
    ELSE join(" ", split(strip(lower(text))))

normalize_text(text) ==
    IF text = "" \/ strip(text) = "" THEN ""
    ELSE LET lower_ == strip(lower(text))
             normalized == sub_punctuation(lower_)
         IN  join(" ", split(normalized))

tokenize(text) ==
    LET normalized == normalize_text(text)
        words == split(normalized)
    IN  {words[i] : i \in 1..Len(words)}
          \cup {words[i] \o " " \o words[i + 1] : i \in 1..(Len(words) - 1)}

\* the phrase loop left out: multi-word entries found as bigram tokens only
extract_skills_tokens_only(text) ==
    IF text = "" \/ strip(text) = "" THEN <<>>
    ELSE sorted({word \in tokenize(text) :
                    word \in SKILL_WORDS \/ word \in SKILL_KEYWORDS})

extract_skills_from_text(text) ==
    IF text = "" \/ strip(text) = "" THEN <<>>
    ELSE LET tokens == tokenize(text)
             phrases == {kw \in SKILL_KEYWORDS :
                            Contains(" ", kw) /\ Contains(kw, normalize_text(text))}
             words == {word \in tokens :
                            word \in SKILL_WORDS \/ word \in SKILL_KEYWORDS}
         IN  sorted(phrases \cup words)

(* Inputs of the extractor: texts put together from a few pieces *)

MaxPieces == 4

Pieces == {"Python", "r", "Machine", "learning", " ", "-", "x", "c#"}

RECURSIVE TextsOf(_, _)
TextsOf(pieces, n) ==
    IF n = 0 THEN {""}
    ELSE LET shorter == TextsOf(pieces, n - 1)
         IN  shorter \cup {t \o p : t \in shorter, p \in pieces}

ExtractInit ==
    /\ \E t \in TextsOf(Pieces, MaxPieces) : fin = [text |-> t]
    /\ fout = <<>>
    /\ phase = "ready"
    /\ ServiceIdle

Extract ==
    /\ phase = "ready"
    /\ fout' = extract_skills_from_text(fin.text)
    /\ phase' = "done"
    /\ UNCHANGED <<fin, svars>>

ExtractNext == Extract

SpecExtract == ExtractInit /\ [][ExtractNext]_vars

\* the words of the normalized text: its maximal runs of non-space characters
NormWords(text) ==
    LET t == normalize_text(text)
    IN  {SubSeq(t, p[1], p[2]) :
            p \in {q \in (1..Len(t)) \X (1..Len(t)) :
                     /\ q[1] <= q[2]
                     /\ (q[1] = 1 \/ Ch(t, q[1] - 1) = " ")
                     /\ (q[2] = Len(t) \/ Ch(t, q[2] + 1) = " ")
                     /\ \A k \in q[1]..q[2] : Ch(t, k) # " "}}

\* C9: the extractor returns a strictly ascending list holding exactly the
\* dictionary entries present: a single-word entry iff it is a word of the
\* normalized text, a multi-word entry iff it is a substring of the normalized
\* text; blank text gives the empty list.
C9_ExtractExact ==
    phase = "done" =>
        /\ \A i \in 1..(Len(fout) - 1) : StrLess(fout[i], fout[i + 1])
        /\ LET normalized == normalize_text(fin.text)
               words == NormWords(fin.text)
           IN  {fout[i] : i \in 1..Len(fout)} =
                  {kw \in SKILL_KEYWORDS :
                      IF Contains(" ", kw) THEN Contains(kw, normalized)
                                          ELSE kw \in words}
        /\ ((\A i \in 1..Len(fin.text) : IsSpace(Ch(fin.text, i))) => fout = <<>>)

\* a phrase found inside a longer word, across punctuation and letter case
C9_Witness ==
    /\ phase = "done"
    /\ fin.text = "xMachine-learning"
    /\ fout = <<"machine learning">>

(* Inputs of the extractor made of the dictionary's own entries: every entry,
   as it is written or in capitals, followed by a separator and by nothing or
   by an entry that holds a punctuation character *)

\* the dictionary entries that hold a character that is neither a word
\* character nor whitespace
PunctuatedEntries ==
    {kw \in SKILL_KEYWORDS :
        \E i \in 1..Len(kw) : ~IsWord(Ch(kw, i)) /\ ~IsSpace(Ch(kw, i))}

Separators == {" ", ", "}

DictionaryInit ==
    /\ \E kw \in SKILL_KEYWORDS, capitals \in BOOLEAN, sep \in Separators,
          second \in PunctuatedEntries \cup {""} :
          fin = [text |-> (IF capitals THEN upper(kw) ELSE kw) \o sep \o second]
    /\ fout = <<>>
    /\ phase = "ready"
    /\ ServiceIdle

SpecDictionary == DictionaryInit /\ [][ExtractNext]_vars

\* the skill is made of lowercase letters, digits and underscores, in words
\* separated by single spaces
LowercaseWords(skill) ==
    /\ skill # ""
    /\ \A i \in 1..Len(skill) :
          Ch(skill, i) \in LowerChars \cup CharsOf(DIGITS) \cup {"_", " "}
    /\ Ch(skill, 1) # " "
    /\ Ch(skill, Len(skill)) # " "
    /\ \A i \in 1..(Len(skill) - 1) : ~(Ch(skill, i) = " " /\ Ch(skill, i + 1) = " ")

\* C13: every skill the extractor returns consists only of lowercase word
\* characters separated by single spaces; the dictionary entries that hold a
\* punctuation character, which are "c#", "c++", "next.js", ".net", "asp.net",
\* "ci/cd", "scikit-learn" and "cross-functional", are never returned.
C13_WordCharsOnly ==
    /\ PunctuatedEntries = {"c#", "c++", "next.js", ".net", "asp.net", "ci/cd",
                            "scikit-learn", "cross-functional"}
    /\ phase = "done" =>
          /\ \A i \in 1..Len(fout) : LowercaseWords(fout[i])
          /\ \A i \in 1..Len(fout) : fout[i] \notin PunctuatedEntries

\* two punctuated entries written out in the text: neither is returned, the
\* word "scikit" left of the first is
C13_Witness ==
    /\ phase = "done"
    /\ fin.text = "SCIKIT-LEARN, c#"
    /\ fout = <<"scikit">>

-----------------------------------------------------------------------------
(* _sentences, _find_evidence_for_skill, extract_overlapping_skills_with_evidence *)

EVIDENCE_MAX_LEN == 120

\* characters before and after the skill kept by the fallback window
WINDOW_BEFORE == 40
WINDOW_AFTER == 50

SentenceEnd == {".", "!", "?"}

\* the first index i >= 2 of s with s[i-1] in [.!?] and s[i] whitespace: where
\* the pattern (?<=[.!?])\s+ first matches; 0 when it does not match
BreakAt(s) ==
    SetMin({i \in 2..Len(s) : Ch(s, i - 1) \in SentenceEnd /\ IsSpace(Ch(s, i))})

\* re.split(r"(?<=[.!?])\s+", raw)
RECURSIVE re_split(_)
re_split(raw) ==
    LET i == BreakAt(raw)
    IN  IF i = 0 THEN <<raw>>
        ELSE <<SubSeq(raw, 1, i - 1)>> \o re_split(lstrip(SubSeq(raw, i, Len(raw))))

NonBlank(p) == strip(p) # ""

_sentences(text) ==
    IF text = "" \/ strip(text) = "" THEN <<>>
    ELSE LET parts == SelectSeq(re_split(strip(text)), NonBlank)
         IN  [k \in 1..Len(parts) |-> strip(parts[k])]

\* s.find(sub) + 1: the first index where sub occurs in s, 0 when it does not
Find(sub, s) ==
    SetMin({i \in 1..(Len(s) - Len(sub) + 1) : SubSeq(s, i, i + Len(sub) - 1) = sub})

\* the index of the last whitespace character of s, 0 when there is none
LastSpace(s) == SetMax({i \in 1..Len(s) : IsSpace(Ch(s, i))})

\* s.rsplit(maxsplit=1)[0] for s not blank: s without its last word and the
\* whitespace before it; the last word itself when nothing else is left
rsplit_first(s) ==
    LET t == rstrip(s)
        j == LastSpace(t)
        head == rstrip(SubSeq(t, 1, j - 1))
    IN  IF j = 0 THEN t
        ELSE IF head = "" THEN SubSeq(t, j + 1, Len(t))
        ELSE head

\* s[:n]
Prefix(s, n) == SubSeq(s, 1, Min(Max(n, 0), Len(s)))

\* the sentence cut at the cap itself, the ellipsis then added on top of it
sentence_snippet_cut_at_cap(sent) ==
    LET snippet == strip(sent)
    IN  IF Len(snippet) > EVIDENCE_MAX_LEN
        THEN rsplit_first(Prefix(snippet, EVIDENCE_MAX_LEN)) \o "..."
        ELSE snippet

\* lines 74-77: the snippet made of the first sentence that holds the skill
sentence_snippet(sent) ==
    LET snippet == strip(sent)
    IN  IF Len(snippet) > EVIDENCE_MAX_LEN
        THEN rsplit_first(Prefix(snippet, EVIDENCE_MAX_LEN - 3)) \o "..."
        ELSE snippet

\* lines 79-91: the characters around the first occurrence; idx1 is idx + 1
window_snippet(resume_text, skill, idx1) ==
    LET idx == idx1 - 1
        start == Max(0, idx - WINDOW_BEFORE)
        end == Min(Len(resume_text), idx + Len(skill) + WINDOW_AFTER)
        s0 == strip(SubSeq(resume_text, start + 1, end))
        s1 == IF start > 0 THEN "..." \o s0 ELSE s0
        s2 == IF end < Len(resume_text) THEN s1 \o "..." ELSE s1
    IN  IF Len(s2) > EVIDENCE_MAX_LEN
        THEN Prefix(s2, EVIDENCE_MAX_LEN - 3) \o "..."
        ELSE s2

\* the indices of the sentences that hold the skill, letter case apart
SentenceHits(resume_text, skill) ==
    LET sents == _sentences(resume_text)
    IN  {k \in 1..Len(sents) : Contains(lower(skill), lower(sents[k]))}

_find_evidence_for_skill(resume_text, skill) ==
    IF resume_text = "" \/ skill = "" THEN ""
    ELSE LET lower_resume == lower(resume_text)
             lower_skill == lower(skill)
             sents == _sentences(resume_text)
             hits == {k \in 1..Len(sents) : Contains(lower_skill, lower(sents[k]))}
         IN  IF hits # {}
             THEN sentence_snippet(sents[CHOOSE k \in hits : \A h \in hits : k <= h])
             ELSE LET idx1 == Find(lower_skill, lower_resume)
                  IN  IF idx1 = 0 THEN ""
                      ELSE window_snippet(resume_text, skill, idx1)

extract_overlapping_skills_with_evidence(resume_text, job_skills, resume_skills) ==
    LET overlap == sorted(LowerSet(resume_skills) \cap LowerSet(job_skills))
    IN  [k \in 1..Len(overlap) |->
            LET evidence == _find_evidence_for_skill(resume_text, overlap[k])
            IN  [skill |-> overlap[k],
                 evidence |-> IF evidence # "" THEN evidence
                              ELSE "(mentioned: " \o overlap[k] \o ")"]]

(* Inputs of the evidence locator: a mention of the skill between two runs of
   filler, long enough for both caps to apply *)

MaxPad == 13

\* n copies of unit
RECURSIVE Rep(_, _)
Rep(unit, n) == IF n = 0 THEN "" ELSE unit \o Rep(unit, n - 1)

\* filler of ten characters: words, one unbroken word, short sentences
PadUnits == {"some text ", "sometextzz", "Some txt. "}

\* <<the mention in the resume, the skill looked for>>
Mentions == {
    <<"Python", "python">>,
    <<"Python", "sql">>,
    <<"Python", "">>,
    <<"I do A. b now", "a. b">>,
    <<"Deep Learning. Natural language", "deep learning. natural language">>}

EvidenceInit ==
    /\ \E a \in 0..MaxPad, b \in 0..MaxPad, u \in PadUnits, m \in Mentions :
          fin = [resume_text |-> Rep(u, a) \o m[1] \o Rep(u, b), skill |-> m[2]]
    /\ fout = <<>>
    /\ phase = "ready"
    /\ ServiceIdle

Evidence ==
    /\ phase = "ready"
    /\ fout' = [evidence |-> _find_evidence_for_skill(fin.resume_text, fin.skill),
                overlapping |-> extract_overlapping_skills_with_evidence(
                                   fin.resume_text, <<fin.skill>>, <<upper(fin.skill)>>)]
    /\ phase' = "done"
    /\ UNCHANGED <<fin, svars>>

EvidenceNext == Evidence

SpecEvidence == EvidenceInit /\ [][EvidenceNext]_vars

\* C7: the snippet of _find_evidence_for_skill is at most EVIDENCE_MAX_LEN (120)
\* characters long on the sentence branch and on the window branch, and every
\* entry of extract_overlapping_skills_with_evidence has non-empty evidence:
\* the snippet, or the placeholder "(mentioned: skill)" when there is none.
C7_EvidenceBounded ==
    phase = "done" =>
        /\ Len(fout.evidence) <= 120
        /\ Len(fout.overlapping) = 1
        /\ \A k \in 1..Len(fout.overlapping) :
              LET e == fout.overlapping[k]
              IN  /\ e.evidence # ""
                  /\ e.skill = fin.skill
                  /\ IF fout.evidence # "" THEN e.evidence = fout.evidence
                     ELSE e.evidence = "(mentioned: " \o fin.skill \o ")"

\* the window branch with its cap applied: no sentence holds the skill, and the
\* window with both ellipses was longer than 120 characters
C7_Witness ==
    /\ phase = "done"
    /\ fin.skill = "deep learning. natural language"
    /\ SentenceHits(fin.resume_text, fin.skill) = {}
    /\ Len(fin.resume_text) > 120
    /\ Len(fout.evidence) = 120
    /\ Prefix(fout.evidence, 3) = "..."

\* C14: a snippet that is not empty contains the skill, letter case apart,
\* also when the sentence or the window was longer than the cap and was cut.
C14_SnippetShowsSkill ==
    (phase = "done" /\ fout.evidence # "") =>
        Contains(lower(fin.skill), lower(fout.evidence))

-----------------------------------------------------------------------------
(* run_baseline_analysis *)

\* [s.skill for s in overlapping]
SkillNames(overlapping) == [k \in 1..Len(overlapping) |-> overlapping[k].skill]

\* the set of the entries of a list
Range(l) == {l[k] : k \in 1..Len(l)}

\* missing taken to be all the job's skills, the resume's not subtracted
run_baseline_analysis_missing_all(resume_text, job_description) ==
    LET resume_skills == extract_skills_from_text(resume_text)
        job_skills == extract_skills_from_text(job_description)
        overlapping == extract_overlapping_skills_with_evidence(
                           resume_text, job_skills, resume_skills)
        missing == sorted(LowerSet(job_skills))
        score == compute_match_score(resume_skills, job_skills)
        steps == suggest_next_steps_baseline(missing, SkillNames(overlapping))
    IN  [match_score |-> score,
         overlapping_skills |-> overlapping,
         missing_skills |-> missing,
         suggested_next_steps |-> steps,
         mode |-> "baseline"]

\* lines 151-157: the result dict
AnalysisResult(score, overlapping, missing, steps, mode) ==
    [match_score |-> score,
     overlapping_skills |-> overlapping,
     missing_skills |-> missing,
     suggested_next_steps |-> steps,
     mode |-> mode]

\* lines 146-157, the skills of the two texts extracted
analysis_of_skills(resume_text, resume_skills, job_skills) ==
    The({AnalysisResult(score, overlapping, missing,
                        suggest_next_steps_baseline(missing, SkillNames(overlapping)),
                        "baseline") :
            overlapping \in {extract_overlapping_skills_with_evidence(
                                 resume_text, job_skills, resume_skills)},
            missing \in {sorted(LowerSet(job_skills) \ LowerSet(resume_skills))},
            score \in {compute_match_score(resume_skills, job_skills)}})

run_baseline_analysis(resume_text, job_description) ==
    The({analysis_of_skills(resume_text, resume_skills, job_skills) :
            resume_skills \in {extract_skills_from_text(resume_text)},
            job_skills \in {extract_skills_from_text(job_description)}})

(* Inputs of the baseline analysis: a resume and a job text put together from
   mentions of skills *)

MaxMentions == 2

MentionPieces == {"Python, ", "sql ", "Machine-Learning. ", "R&D next.js "}

BaselineInit ==
    /\ \E r \in TextsOf(MentionPieces, MaxMentions),
          j \in TextsOf(MentionPieces, MaxMentions) :
          fin = [resume_text |-> r, job_description |-> j]
    /\ fout = <<>>
    /\ phase = "ready"
    /\ ServiceIdle

Baseline ==
    /\ phase = "ready"
    /\ fout' = run_baseline_analysis(fin.resume_text, fin.job_description)
    /\ phase' = "done"
    /\ UNCHANGED <<fin, svars>>

BaselineNext == Baseline

SpecBaseline == BaselineInit /\ [][BaselineNext]_vars

\* C1: the result partitions the job's extracted skills: the overlapping skills
\* and the missing skills are disjoint, together they are the case-folded set of
\* the skills extracted from the job text, and no skill is listed twice as
\* overlapping.
C1_Partition ==
    phase = "done" =>
        LET over == SkillNames(fout.overlapping_skills)
            job_set == LowerSet(extract_skills_from_text(fin.job_description))
        IN  /\ Range(over) \cap Range(fout.missing_skills) = {}
            /\ Range(over) \cup Range(fout.missing_skills) = job_set
            /\ \A a, b \in 1..Len(over) : over[a] = over[b] => a = b

\* a job with one skill the resume has and one it lacks
C1_Witness ==
    /\ phase = "done"
    /\ fin.resume_text = "Machine-Learning. Python, "
    /\ fin.job_description = "Python, sql "
    /\ SkillNames(fout.overlapping_skills) = <<"python">>
    /\ fout.missing_skills = <<"sql">>

-----------------------------------------------------------------------------
(* llm_service.py and analyzer.py *)

\* What the external completion service does when it is asked, as seen by
\* run_llm_analysis:
\*   "import_error"  the openai package cannot be imported (no call is made)
\*   "raises"        the call raises (network, timeout, rate limit, API error)
\*   "no_choices"    the response has no choices: resp.choices[0] raises
\*   "none"          message.content is None
\*   "text"          message.content is the string in content
LLMKinds == {"import_error", "raises", "no_choices", "none", "text"}

LLMOutcome(kind, content) == [kind |-> kind, content |-> content]

\* the number of calls of client.chat.completions.create one run makes
llm_calls(llm) == IF llm.kind = "import_error" THEN 0 ELSE 1

\* the first index of a line feed in s, 0 when there is none
LineFeedAt(s) == SetMin({i \in 1..Len(s) : Ch(s, i) = "\n"})

\* s.split("\n"); the string and the place of its first line feed are bound
\* once, as values
RECURSIVE split_lines(_)
split_lines(s) ==
    The({IF i = 0 THEN <<t>>
         ELSE <<SubSeq(t, 1, i - 1)>> \o split_lines(SubSeq(t, i + 1, Len(t)))
            : <<t, i>> \in {<<s, LineFeedAt(s)>>}})

\* line.startswith(prefix)
startswith(line, prefix) == Prefix(line, Len(prefix)) = prefix

\* the bullet markers of line 47, in order.  Its third marker, a bullet
\* character and a space, is made of characters outside ASCII, which no line
\* of this model holds: it is left out.
BULLET_PREFIXES == <<"- ", "* ", "1. ", "2. ", "3. ", "4. ", "5. ">>

\* the marker taken off and what follows it kept as it is, not trimmed
strip_bullet_keeps_padding(line) ==
    LET hits == {k \in 1..Len(BULLET_PREFIXES) : startswith(line, BULLET_PREFIXES[k])}
    IN  IF hits = {} THEN line
        ELSE SubSeq(line, Len(BULLET_PREFIXES[SetMin(hits)]) + 1, Len(line))

\* lines 47-50: the line without the first marker it starts with
strip_bullet(line) ==
    LET hits == {k \in 1..Len(BULLET_PREFIXES) : startswith(line, BULLET_PREFIXES[k])}
    IN  IF hits = {} THEN line
        ELSE strip(SubSeq(line, Len(BULLET_PREFIXES[SetMin(hits)]) + 1, Len(line)))

NotEmpty(line) == line # ""

\* lines 41-52: each line trimmed and without its marker; the lines that are
\* empty before or after the marker is taken off are dropped
collect_steps(lines) ==
    SelectSeq([k \in 1..Len(lines) |-> strip_bullet(strip(lines[k]))], NotEmpty)

parse_steps(content) ==
    The({collect_steps(lines) : lines \in {split_lines(strip(content))}})

\* the guard "if steps" left out: a result of mode "llm" built from no line
run_llm_analysis_unguarded(resume_text, job_description, llm) ==
    LET baseline == run_baseline_analysis(resume_text, job_description)
    IN  IF llm.kind \in {"import_error", "raises", "no_choices"} THEN baseline
        ELSE [baseline EXCEPT
                 !.suggested_next_steps =
                     Take(parse_steps(IF llm.kind = "none" THEN "" ELSE llm.content), 6),
                 !.mode = "llm"]

\* the missing skills not carried over into the result of mode "llm"
run_llm_analysis_drops_missing(resume_text, job_description, llm) ==
    LET baseline == run_baseline_analysis(resume_text, job_description)
        steps == parse_steps(IF llm.kind = "none" THEN "" ELSE llm.content)
    IN  IF llm.kind \in {"import_error", "raises", "no_choices"} THEN baseline
        ELSE IF steps # <<>>
             THEN [match_score |-> baseline.match_score,
                   overlapping_skills |-> baseline.overlapping_skills,
                   missing_skills |-> <<>>,
                   suggested_next_steps |-> Take(steps, 6),
                   mode |-> "llm"]
             ELSE baseline

\* lines 53-60: the result built from the steps, if there are any
llm_result(baseline, steps) ==
    IF steps # <<>>
    THEN AnalysisResult(baseline.match_score, baseline.overlapping_skills,
                        baseline.missing_skills, Take(steps, 6), "llm")
    ELSE baseline

run_llm_analysis(resume_text, job_description, llm) ==
    The({IF llm.kind \in {"import_error", "raises", "no_choices"}
         THEN baseline      \* except Exception: pass
         ELSE llm_result(baseline,
                         parse_steps(IF llm.kind = "none" THEN "" ELSE llm.content)) :
            baseline \in {run_baseline_analysis(resume_text, job_description)}})

\* the key taken as it is, not trimmed
is_llm_available_untrimmed(OPENAI_API_KEY) == OPENAI_API_KEY # ""

is_llm_available(OPENAI_API_KEY) == strip(OPENAI_API_KEY) # ""

\* analyzer.py: the result, and the number of calls of the external service
analyze_resume_vs_job(resume_text, job_description, use_llm_mode, OPENAI_API_KEY, llm) ==
    IF use_llm_mode /\ is_llm_available(OPENAI_API_KEY)
    THEN [result |-> run_llm_analysis(resume_text, job_description, llm),
          calls |-> llm_calls(llm)]
    ELSE [result |-> run_baseline_analysis(resume_text, job_description),
          calls |-> 0]

(* Inputs of the analyzer *)

AnalyzeResumes == {"", "Python and SQL. Git", "r&d"}
AnalyzeJobs == {"", "python docker", "SQL"}
ApiKeys == {"", "  ", "sk-test", " sk-test\n"}

LLMContents == {
    "",
    " \n\n  ",
    "- Learn Docker\n* Build a project\n1. Add metrics",
    "Plan:\n\n1. a\n2. b\n3. c\n4. d\n5. e\n6. f\n7. g",
    "6. Six\n- - nested\n10. ten\n-\n  5.   padded  "}

LLMOutcomes ==
    {LLMOutcome(k, "") : k \in LLMKinds \ {"text"}}
        \cup {LLMOutcome("text", c) : c \in LLMContents}

AnalyzeInit ==
    /\ \E r \in AnalyzeResumes, j \in AnalyzeJobs, flag \in BOOLEAN,
          key \in ApiKeys, llm \in LLMOutcomes :
          fin = [resume_text |-> r, job_description |-> j,
                 use_llm_mode |-> flag, OPENAI_API_KEY |-> key, llm |-> llm]
    /\ fout = <<>>
    /\ phase = "ready"
    /\ ServiceIdle

Analyze ==
    /\ phase = "ready"
    /\ fout' = analyze_resume_vs_job(fin.resume_text, fin.job_description,
                                     fin.use_llm_mode, fin.OPENAI_API_KEY, fin.llm)
    /\ phase' = "done"
    /\ UNCHANGED <<fin, svars>>

AnalyzeNext == Analyze

SpecAnalyze == AnalyzeInit /\ [][AnalyzeNext]_vars

\* the flag is set and the credential is not blank
LLMSelected ==
    /\ fin.use_llm_mode
    /\ \E i \in 1..Len(fin.OPENAI_API_KEY) : ~IsSpace(Ch(fin.OPENAI_API_KEY, i))

\* the external call failed: it raised, the response was malformed, or the
\* content holds no usable line (it is absent or all whitespace)
LLMFailed ==
    \/ fin.llm.kind \in {"import_error", "raises", "no_choices", "none"}
    \/ \A i \in 1..Len(fin.llm.content) : IsSpace(Ch(fin.llm.content, i))

BaselineOfInput == run_baseline_analysis(fin.resume_text, fin.job_description)

\* C4: when the LLM path is taken and the external call fails in any way, the
\* result is the result of run_baseline_analysis on the same inputs, field for
\* field, with mode "baseline".
C4_FallbackIsBaseline ==
    (phase = "done" /\ LLMSelected /\ LLMFailed) =>
        /\ fout.result = BaselineOfInput
        /\ fout.result.mode = "baseline"

C4_Witness ==
    /\ phase = "done"
    /\ LLMSelected
    /\ fin.llm = LLMOutcome("text", " \n\n  ")
    /\ fin.job_description = "python docker"
    /\ fout.calls = 1
    /\ fout.result.mode = "baseline"

\* C5: whichever mode is selected and whatever the service returns, the score,
\* the overlapping skills and the missing skills are those of the baseline;
\* only suggested_next_steps and mode can differ.
C5_LLMFrame ==
    phase = "done" =>
        /\ fout.result.match_score = BaselineOfInput.match_score
        /\ fout.result.overlapping_skills = BaselineOfInput.overlapping_skills
        /\ fout.result.missing_skills = BaselineOfInput.missing_skills
        /\ DOMAIN fout.result = DOMAIN BaselineOfInput

C5_Witness ==
    /\ phase = "done"
    /\ fout.result.mode = "llm"
    /\ fout.result.suggested_next_steps # BaselineOfInput.suggested_next_steps
    /\ fout.result.missing_skills = <<"docker">>
    /\ fout.result.match_score = 50

\* C6: the external service is called at most once per call, and only if the
\* flag is set and the credential is non-empty after trimming; otherwise it is
\* not called and the result is the baseline result with mode "baseline".  A
\* result of mode "llm" implies both conditions.
C6_Selection ==
    phase = "done" =>
        /\ fout.calls \in {0, 1}
        /\ fout.calls = 1 => LLMSelected
        /\ ~LLMSelected => /\ fout.calls = 0
                           /\ fout.result = BaselineOfInput
                           /\ fout.result.mode = "baseline"
        /\ fout.result.mode = "llm" => LLMSelected

\* the flag set and a credential of spaces only: the service is not called
C6_Witness ==
    /\ phase = "done"
    /\ fin.use_llm_mode
    /\ fin.OPENAI_API_KEY = "  "
    /\ fin.llm.kind = "text"
    /\ fout.calls = 0
    /\ fout.result.mode = "baseline"

\* the text is empty or consists only of whitespace
Blank(text) == \A i \in 1..Len(text) : IsSpace(Ch(text, i))

\* the lines of the service's response
ResponseLines == split_lines(strip(fin.llm.content))

\* what a line of the response gives as an entry: the line trimmed, and, when
\* it starts with one of the markers, without that marker and trimmed again;
\* nothing when that is empty
EntriesOf(line) ==
    LET t == strip(line)
        markers == {m \in Range(BULLET_PREFIXES) : Prefix(t, Len(m)) = m}
    IN  (IF markers = {} THEN {t}
         ELSE {strip(SubSeq(t, Len(m) + 1, Len(t))) : m \in markers}) \ {""}

\* the places of the usable lines of the response, and the k-th of them
UsablePlaces == {i \in 1..Len(ResponseLines) : EntriesOf(ResponseLines[i]) # {}}
UsablePlace(k) ==
    CHOOSE i \in UsablePlaces : Cardinality({j \in UsablePlaces : j < i}) = k - 1

\* the entry starts with digits followed by a full stop and a space
StartsNumbered(e) ==
    \E n \in 1..(Len(e) - 2) :
        /\ \A i \in 1..n : Ch(e, i) \in CharsOf(DIGITS)
        /\ SubSeq(e, n + 1, n + 2) = ". "

-----------------------------------------------------------------------------
(* main.py: POST /analyze, DELETE /history, DELETE /history/{run_id} *)

\* text.split("\n")[0]
FirstLine(t) == IF LineFeedAt(t) = 0 THEN t ELSE SubSeq(t, 1, LineFeedAt(t) - 1)

\* t[: max_len + 1].rsplit(maxsplit=1)[0].rstrip() or t[:max_len]
CutAtWord(t, max_len) ==
    LET cut == rstrip(rsplit_first(Prefix(t, max_len + 1)))
    IN  IF cut # "" THEN cut ELSE Prefix(t, max_len)

_resume_summary(text, max_len) ==
    LET t == strip(text)
    IN  IF t = "" THEN ""
        ELSE IF Len(t) <= max_len THEN t
        ELSE CutAtWord(t, max_len)

_job_title_guess(text, max_len) ==
    LET t == strip(text)
        first_line == strip(FirstLine(t))
    IN  IF t = "" THEN ""
        ELSE IF Len(first_line) <= max_len THEN first_line
        ELSE CutAtWord(first_line, max_len)

_result_to_json(result, resume_text, job_description) ==
    [resume_text |-> resume_text,
     job_description |-> job_description,
     match_score |-> result.match_score,
     overlapping_skills |-> result.overlapping_skills,
     missing_skills |-> result.missing_skills,
     suggested_next_steps |-> result.suggested_next_steps,
     mode |-> result.mode]

\* lines 154-159: the row of a request.  The timestamp column is left out: it
\* is set when the row is written, so "ORDER BY timestamp DESC" is the order
\* of db read backwards.
AnalysisRun(id, request, resume_text_clean, job_description_clean) ==
    [id |-> id,
     resume_summary |-> _resume_summary(request.resume_text, 50),
     job_title_guess |-> _job_title_guess(request.job_description, 80),
     match_score |-> request.result.match_score,
     result_json |-> _result_to_json(request.result, resume_text_clean,
                                     job_description_clean)]

\* select(AnalysisRun).order_by(timestamp.desc()).limit(1): no row or one row
LastRun(rows) == IF rows = <<>> THEN <<>> ELSE <<rows[Len(rows)]>>

\* the duplicate taken from the resume text alone
is_consecutive_duplicate_resume_only(last_run, resume_text_clean, job_description_clean) ==
    /\ last_run # <<>>
    /\ strip(last_run[1].result_json.resume_text) = resume_text_clean

\* lines 147-150: the run repeats the most recent one
is_consecutive_duplicate(last_run, resume_text_clean, job_description_clean) ==
    /\ last_run # <<>>
    /\ strip(last_run[1].result_json.resume_text) = resume_text_clean
    /\ strip(last_run[1].result_json.job_description) = job_description_clean

(* Inputs of the service *)

MaxRuns == 2

ServiceResumes == {"", "Python.", " Python. "}
ServiceJobs == {" ", "SQL"}
ServiceEnvs == {[use_llm_mode |-> FALSE, OPENAI_API_KEY |-> ""],
                [use_llm_mode |-> TRUE, OPENAI_API_KEY |-> "sk-test"]}
ServiceLLMOutcomes == {LLMOutcome("raises", ""), LLMOutcome("text", "- Learn SQL")}

Init ==
    /\ fin = <<>>
    /\ fout = <<>>
    /\ phase = "service"
    /\ env \in ServiceEnvs
    /\ db = <<>>
    /\ next_id = 1
    /\ req = [c \in Slots |-> IdleRequest]

\* the request answered: the handler's locals are gone
Answered(r, status) ==
    [IdleRequest EXCEPT !.pc = "done", !.status = status,
                        !.resume_text = r.resume_text,
                        !.job_description = r.job_description]

\* A request arrives and its body is validated against AnalyzeRequest
\* (min_length=1 on both fields): a body that fails is answered 422 and the
\* handler is not entered.
Post(c, resume_text, job_description) ==
    /\ req[c].pc \in {"idle", "done"}
    /\ next_id <= MaxRuns
    /\ req' = [req EXCEPT ![c] =
                 IF resume_text = "" \/ job_description = ""
                 THEN Answered([IdleRequest EXCEPT
                                  !.resume_text = resume_text,
                                  !.job_description = job_description], 422)
                 ELSE [IdleRequest EXCEPT !.pc = "received",
                                          !.resume_text = resume_text,
                                          !.job_description = job_description]]
    /\ UNCHANGED <<fvars, env, db, next_id>>

\* lines 128-140: the texts are trimmed and analysed and the response is built;
\* the handler then awaits the SELECT of the most recent run
Run(c, llm) ==
    /\ req[c].pc = "received"
    /\ \E resume_text_clean \in {strip(req[c].resume_text)},
          job_description_clean \in {strip(req[c].job_description)} :
          req' = [req EXCEPT ![c].result =
                    analyze_resume_vs_job(resume_text_clean, job_description_clean,
                                          env.use_llm_mode, env.OPENAI_API_KEY,
                                          llm).result,
                             ![c].pc = "select"]
    /\ UNCHANGED <<fvars, env, db, next_id>>

\* lines 143-151, the session being an AsyncSession as get_session yields it:
\* the most recent run is read; a request that repeats it is answered without
\* being saved
SelectLast(c) ==
    /\ req[c].pc = "select"
    /\ \E resume_text_clean \in {strip(req[c].resume_text)},
          job_description_clean \in {strip(req[c].job_description)},
          last_run \in {LastRun(db)} :
          req' = [req EXCEPT ![c] =
                    IF is_consecutive_duplicate(last_run, resume_text_clean,
                                                job_description_clean)
                    THEN Answered(req[c], 200)
                    ELSE [req[c] EXCEPT !.last_run = last_run, !.pc = "commit"]]
    /\ UNCHANGED <<fvars, env, db, next_id>>

\* lines 154-162: the run is added and committed, and the response returned
Commit(c) ==
    /\ req[c].pc = "commit"
    /\ next_id <= MaxRuns
    /\ \E resume_text_clean \in {strip(req[c].resume_text)},
          job_description_clean \in {strip(req[c].job_description)} :
          db' = Append(db, AnalysisRun(next_id, req[c], resume_text_clean,
                                       job_description_clean))
    /\ next_id' = next_id + 1
    /\ req' = [req EXCEPT ![c] = Answered(req[c], 200)]
    /\ UNCHANGED <<fvars, env>>

\* lines 165-166: the database raises in execute or commit; the session is
\* rolled back and the request answered 500
DbFails(c) ==
    /\ req[c].pc \in {"select", "commit"}
    /\ req' = [req EXCEPT ![c] = Answered(req[c], 500)]
    /\ UNCHANGED <<fvars, env, db, next_id>>

\* DELETE /history
clear_history ==
    /\ db # <<>>
    /\ db' = <<>>
    /\ UNCHANGED <<fvars, env, next_id, req>>

\* DELETE /history/{run_id}; a run_id that is not stored is answered 404
delete_history_item(run_id) ==
    /\ \E k \in 1..Len(db) : db[k].id = run_id
    /\ db' = [k \in 1..(Len(db) - 1) |->
                 IF \E h \in 1..k : db[h].id = run_id THEN db[k + 1] ELSE db[k]]
    /\ UNCHANGED <<fvars, env, next_id, req>>

Next ==
    \/ \E c \in Slots, r \in ServiceResumes, j \in ServiceJobs : Post(c, r, j)
    \/ \E c \in Slots, llm \in ServiceLLMOutcomes : Run(c, llm)
    \/ \E c \in Slots : SelectLast(c)
    \/ \E c \in Slots : Commit(c)
    \/ \E c \in Slots : DbFails(c)
    \/ clear_history
    \/ \E run_id \in 1..MaxRuns : delete_history_item(run_id)

Spec == Init /\ [][Next]_vars

\* request c is answered 200 in this step
Succeeds(c) == req[c].pc # "done" /\ req'[c].pc = "done" /\ req'[c].status = 200

\* the most recent run as the handler of c read it
SeenLast(c) == IF req[c].pc = "select" THEN LastRun(db) ELSE req[c].last_run

\* the texts of c, trimmed, are those of the run the handler read
RepeatsSeen(c) ==
    /\ SeenLast(c) # <<>>
    /\ SeenLast(c)[1].result_json.resume_text = strip(req[c].resume_text)
    /\ SeenLast(c)[1].result_json.job_description = strip(req[c].job_description)

ClientErrors == {400, 422}

\* C11: a request whose resume_text or job_description is empty or consists
\* only of whitespace is answered with a client-facing error,
\* analyze_resume_vs_job is not run on it, and no run is stored for it.
C11_BlankRejected ==
    /\ \A c \in Slots :
          (req[c].pc # "idle" /\ (Blank(req[c].resume_text) \/ Blank(req[c].job_description)))
              => /\ req[c].pc \notin {"select", "commit"}
                 /\ req[c].pc = "done" => req[c].status \in ClientErrors
    /\ \A k \in 1..Len(db) :
          /\ ~Blank(db[k].result_json.resume_text)
          /\ ~Blank(db[k].result_json.job_description)


=============================================================================
